---- MODULE Spec2Model ----
(***************************************************************************)
(* A model of the complementary-colour demo: the ComplementaryColorModel   *)
(* class (colour conversion, data generation, the fully connected network, *)
(* the train step) and the training loop trainAndMaybeRender with its      *)
(* yield to the browser between steps.                                     *)
(*                                                                         *)
(* Numbers.  JavaScript numbers are IEEE doubles.  The colour conversion   *)
(* is modelled over exact rationals [n, d]; the network's tensors are      *)
(* fixed-point integers in units of 1/Scale; the learning rate, which is   *)
(* only ever a product of powers of 0.1 and 0.85, is kept exactly as the   *)
(* exponents of its prime factors 2, 5 and 17.                             *)
(***************************************************************************)
EXTENDS Integers, Sequences, FiniteSets, TLC

VARIABLES
  learningRate,   \* this.learningRate, the base rate
  optimizerRate,  \* the rate last set on this.optimizer
  sampleSize,     \* this.sampleSize
  batchSize,      \* this.batchSize
  data,           \* this.data: [input, target], rows of three channels
  weights,        \* this.weights: one matrix per layer
  biases,         \* this.biases: one scalar per layer
  pc,             \* where the script (or the harness) stands
  step,           \* the loop variable of trainAndMaybeRender
  cost,           \* what the last train1Step returned
  trained,        \* the batches the last train1Step passed to train1Batch
  console,        \* console.log output, oldest first
  rows,           \* the data-original-color attributes of the table rows
  painted,        \* the table cells: [original, complement, predicted] per row
  paints,         \* calls of visualizePredictedComplement so far
  calls,          \* calls of train1Step so far
  stepArg,        \* the step passed to the last train1Step, 0 before any
  yields,         \* awaits of dl.nextFrame() issued so far
  frames,         \* animation frames the browser has delivered to the loop
  rgbColor,       \* the argument of the last computeComplementaryColor call
  complement      \* its result

vars == <<learningRate, optimizerRate, sampleSize, batchSize, data, weights,
          biases, pc, step, cost, trained, console, rows, painted, paints,
          calls, stepArg, yields, frames, rgbColor, complement>>

modelVars == <<learningRate, optimizerRate, sampleSize, batchSize, data,
               weights, biases>>
loopVars == <<pc, step, cost, trained, console, rows, painted, paints, calls,
              stepArg, yields, frames>>
colorVars == <<rgbColor, complement>>

(***************************************************************************)
(* Bounds of the model.                                                    *)
(***************************************************************************)
\* Channel values tried by the colour harness: NumLevels + 1 levels over 0..255.
NumLevels == 31
\* Fixed-point resolution: tensors are integers in units of 1/(Resolution*255).
Resolution == 4
\* The width of the first hidden layer (64 in the source).
HiddenWidth == 4
\* Seeds of the random stream tried.
NumSeeds == 2
\* The data set's size and the batch size of the program's run (5e4 and 50
\* in the source).
RunSampleSize == 5
RunBatchSize == 2
\* The harness tries every sample size up to MaxSamples, every batch size
\* from 1 to MaxBatch, the steps around the first MaxDecays decays of the
\* rate, and MaxCalls calls of train1Step in a row.
MaxSamples == 5
MaxBatch == 3
MaxDecays == 2
MaxCalls == 2

Scale == Resolution * 255

\* A value that may be null is a sequence: null is the empty one, a number
\* is the sequence of it alone, a colour the sequence of its channels.
Null == <<>>

Number(v) == <<v>>

\* v === null
IsNull(v) == v = Null

(***************************************************************************)
(* Only({e : x \in {v}}) is e with x naming the value v: v is computed     *)
(* once, however often e uses x.                                           *)
(***************************************************************************)
Only(S) == CHOOSE x \in S : TRUE

(***************************************************************************)
(* Exact rationals for the colour arithmetic.                              *)
(***************************************************************************)
Abs(x) == IF x < 0 THEN -x ELSE x

RECURSIVE Gcd(_, _)
Gcd(a, b) == IF b = 0 THEN a ELSE Gcd(b, a % b)

Rat(n, d) ==
  Only({ IF d < 0 THEN [n |-> -(n \div g), d |-> -(d \div g)]
         ELSE [n |-> n \div g, d |-> d \div g] : g \in {Gcd(Abs(n), Abs(d))} })

RInt(k) == [n |-> k, d |-> 1]

RAdd(a0, b0) ==
  Only({ Only({ Rat(a.n * (b.d \div g) + b.n * (a.d \div g), (a.d \div g) * b.d)
                : g \in {Gcd(a.d, b.d)} })
         : a \in {a0}, b \in {b0} })

RNeg(a0) == Only({ [n |-> -a.n, d |-> a.d] : a \in {a0} })

RSub(a, b) == RAdd(a, RNeg(b))

RMul(a0, b0) ==
  Only({ Only({ [n |-> (a.n \div g1) * (b.n \div g2),
                 d |-> (a.d \div g2) * (b.d \div g1)]
                : g1 \in {Gcd(Abs(a.n), b.d)}, g2 \in {Gcd(Abs(b.n), a.d)} })
         : a \in {a0}, b \in {b0} })

RInv(a0) ==
  Only({ IF a.n < 0 THEN [n |-> -a.d, d |-> -a.n] ELSE [n |-> a.d, d |-> a.n]
         : a \in {a0} })

RDiv(a, b) == RMul(a, RInv(b))

RLt(a, b) == RSub(a, b).n < 0

RMax(a0, b0) == Only({ IF RLt(a, b) THEN b ELSE a : a \in {a0}, b \in {b0} })

RMin(a0, b0) == Only({ IF RLt(b, a) THEN b ELSE a : a \in {a0}, b \in {b0} })

\* Math.round: the nearest integer, a tie going up.
MathRound(a0) == Only({ (2 * a.n + a.d) \div (2 * a.d) : a \in {a0} })

(***************************************************************************)
(* computeComplementaryColor.                                              *)
(***************************************************************************)
\* t after `if (t < 0) t += 1; if (t > 1) t -= 1`
WrapUnit(t0) ==
  Only({ IF RLt(RInt(1), t1) THEN RSub(t1, RInt(1)) ELSE t1
         : t1 \in {IF RLt(t0, RInt(0)) THEN RAdd(t0, RInt(1)) ELSE t0} })

\* A hue2rgb without `if (t < 1 / 2) return q`: the falling ramp starts at
\* 1/6 instead of 1/2.
hue2rgbNoPlateau(p, q, t0) ==
  Only({ IF RLt(t, Rat(1, 6))
           THEN RAdd(p, RMul(RMul(RSub(q, p), RInt(6)), t))
         ELSE IF RLt(t, Rat(2, 3))
           THEN RAdd(p, RMul(RMul(RSub(q, p), RSub(Rat(2, 3), t)), RInt(6)))
         ELSE p
         : t \in {WrapUnit(t0)} })

hue2rgb(p, q, t0) ==
  Only({ IF RLt(t, Rat(1, 6))
           THEN RAdd(p, RMul(RMul(RSub(q, p), RInt(6)), t))
         ELSE IF RLt(t, Rat(1, 2))
           THEN q
         ELSE IF RLt(t, Rat(2, 3))
           THEN RAdd(p, RMul(RMul(RSub(q, p), RSub(Rat(2, 3), t)), RInt(6)))
         ELSE p
         : t \in {WrapUnit(t0)} })

\* The hue in the source's units (1.0472 per sextant, 6.2832 per turn).
Hue(r, g, b, max, d) ==
  IF max = r /\ ~RLt(g, b)
    THEN RDiv(RMul(Rat(10472, 10000), RSub(g, b)), d)
  ELSE IF max = r /\ RLt(g, b)
    THEN RAdd(RDiv(RMul(Rat(10472, 10000), RSub(g, b)), d), Rat(62832, 10000))
  ELSE IF max = g
    THEN RAdd(RDiv(RMul(Rat(10472, 10000), RSub(b, r)), d), Rat(20944, 10000))
  ELSE RAdd(RDiv(RMul(Rat(10472, 10000), RSub(r, g)), d), Rat(41888, 10000))

\* The saturation of a colour that is not gray.
Saturation(max, min, l) ==
  IF RLt(Rat(1, 2), l)
    THEN RDiv(RSub(max, min), RSub(RSub(RInt(2), max), min))
  ELSE RDiv(RSub(max, min), RAdd(max, min))

\* A conversion whose achromatic branch resets the hue only, so that s keeps
\* the lightness it was initialised with.
RgbToHslUnset(r, g, b) ==
  Only({ Only({ IF max = min THEN [h |-> RInt(0), s |-> l, l |-> l]
                ELSE [h |-> Hue(r, g, b, max, RSub(max, min)),
                      s |-> Saturation(max, min, l),
                      l |-> l]
                : l \in {RDiv(RAdd(max, min), RInt(2))} })
         : max \in {RMax(RMax(r, g), b)}, min \in {RMin(RMin(r, g), b)} })

\* RGB to HSL, each channel in [0, 1]; the hue in the source's units.
RgbToHsl(r, g, b) ==
  Only({ Only({ IF max = min THEN [h |-> RInt(0), s |-> RInt(0), l |-> l]
                ELSE [h |-> Hue(r, g, b, max, RSub(max, min)),
                      s |-> Saturation(max, min, l),
                      l |-> l]
                : l \in {RDiv(RAdd(max, min), RInt(2))} })
         : max \in {RMax(RMax(r, g), b)}, min \in {RMin(RMin(r, g), b)} })

\* A rotation that forgets `if (h > 360) h -= 360`.
RotatedHueUnwrapped(h0) ==
  RDiv(RAdd(RAdd(RMul(RDiv(h0, Rat(62832, 10000)), RInt(360)), RInt(0)), RInt(180)),
       RInt(360))

\* The hue turned by 180 degrees and scaled to [0, 1].
RotatedHue(h0) ==
  Only({ RDiv(IF RLt(RInt(360), turned) THEN RSub(turned, RInt(360)) ELSE turned,
              RInt(360))
         : turned \in {RAdd(RAdd(RMul(RDiv(h0, Rat(62832, 10000)), RInt(360)),
                                 RInt(0)),
                            RInt(180))} })

\* const q = l < 0.5 ? l * (1 + s) : l + s - l * s
Q(l, s) ==
  IF RLt(l, Rat(1, 2)) THEN RMul(l, RAdd(RInt(1), s))
  ELSE RSub(RAdd(l, s), RMul(l, s))

\* HSL to RGB, each channel in [0, 1].
HslToRgb(h, s, l) ==
  IF s = RInt(0) THEN <<l, l, l>>
  ELSE Only({ Only({ <<hue2rgb(p, q, RAdd(h, Rat(1, 3))),
                       hue2rgb(p, q, h),
                       hue2rgb(p, q, RSub(h, Rat(1, 3)))>>
                     : p \in {RSub(RMul(RInt(2), l), q)} })
              : q \in {Q(l, s)} })

\* The three channels before the final rounding.
ComplementChannels(rgb) ==
  Only({ Only({ HslToRgb(h, hsl.s, hsl.l) : h \in {RotatedHue(hsl.h)} })
         : hsl \in {RgbToHsl(Rat(rgb[1], 255), Rat(rgb[2], 255), Rat(rgb[3], 255))} })

computeComplementaryColor(rgb) ==
  Only({ <<MathRound(RMul(v[1], RInt(255))),
           MathRound(RMul(v[2], RInt(255))),
           MathRound(RMul(v[3], RInt(255)))>>
         : v \in {ComplementChannels(rgb)} })

(***************************************************************************)
(* Fixed-point tensors.  A tensor entry x stands for the number x / Scale. *)
(* A 2-D tensor is a sequence of rows.                                     *)
(***************************************************************************)
\* a / b rounded to the nearest integer (b > 0).
RoundDiv(a, b) == (2 * a + b) \div (2 * b)

\* The sequence <<F(1), ..., F(n)>>.
Table(n, F(_)) ==
  LET RECURSIVE Upto(_)
      Upto(k) == IF k = 0 THEN <<>> ELSE Append(Upto(k - 1), F(k))
  IN Upto(n)

\* F(1) + ... + F(n)
Sum(n, F(_)) ==
  LET RECURSIVE Upto(_)
      Upto(k) == IF k = 0 THEN 0 ELSE Upto(k - 1) + F(k)
  IN Upto(n)

\* The tensor with n rows and m columns whose entry (i, j) is F(i, j).
Tensor(n, m, F(_, _)) ==
  LET Row(i) == LET Entry(j) == F(i, j) IN Table(m, Entry)
  IN Table(n, Row)

Rows(A) == Len(A)
Cols(A) == Len(A[1])

MatMul(A0, B0) ==
  Only({ LET Entry(i, j) ==
               LET Product(k) == A[i][k] * B[k][j]
               IN RoundDiv(Sum(Rows(B), Product), Scale)
         IN Tensor(Rows(A), Cols(B), Entry) : A \in {A0}, B \in {B0} })

Transpose(A0) ==
  Only({ LET Entry(j, i) == A[i][j]
         IN Tensor(Cols(A), Rows(A), Entry) : A \in {A0} })

MapT(Op(_), A0) ==
  Only({ LET Entry(i, j) == Op(A[i][j])
         IN Tensor(Rows(A), Cols(A), Entry) : A \in {A0} })

Map2T(Op(_, _), A0, B0) ==
  Only({ LET Entry(i, j) == Op(A[i][j], B[i][j])
         IN Tensor(Rows(A), Cols(A), Entry) : A \in {A0}, B \in {B0} })

SumT(A0) ==
  Only({ LET RowSum(i) == LET Entry(j) == A[i][j] IN Sum(Cols(A), Entry)
         IN Sum(Rows(A), RowSum) : A \in {A0} })

SizeT(A) == Rows(A) * Cols(A)

\* The indices of an array of n entries.
Indices(n) ==
  LET Index(k) == k - 1
  IN Table(n, Index)

\* Array.prototype.slice(from, to) on a sequence indexed from 0.
Slice(s, from, to) ==
  SubSeq(s, from + 1, IF to < Len(s) THEN to ELSE Len(s))

(***************************************************************************)
(* The learning rate: 2^p2 * 5^p5 * 17^p17, exactly.                       *)
(***************************************************************************)
Num(a, b, c) == [p2 |-> a, p5 |-> b, p17 |-> c]

\* 0.1 and 0.85
OneTenth == Num(-1, -1, 0)
Decay == Num(-2, -1, 1)

NumMul(x, y) == Num(x.p2 + y.p2, x.p5 + y.p5, x.p17 + y.p17)

\* Math.pow(x, k) for an integer k >= 0
MathPow(x, k) == Num(x.p2 * k, x.p5 * k, x.p17 * k)

\* Math.floor(a / b) for b > 0
MathFloorDiv(a, b) == a \div b

\* The fixed-point product of a rate and a tensor entry, one prime factor
\* at a time.
RECURSIVE TimesFactors(_, _, _, _)
TimesFactors(p2, p5, p17, x) ==
  IF p17 > 0 /\ p2 < -1 /\ p5 < 0
    THEN TimesFactors(p2 + 2, p5 + 1, p17 - 1, RoundDiv(17 * x, 20))
  ELSE IF p17 > 0 THEN TimesFactors(p2, p5, p17 - 1, 17 * x)
  ELSE IF p2 < 0 /\ p5 < 0 THEN TimesFactors(p2 + 1, p5 + 1, p17, RoundDiv(x, 10))
  ELSE IF p2 < 0 THEN TimesFactors(p2 + 1, p5, p17, RoundDiv(x, 2))
  ELSE IF p5 < 0 THEN TimesFactors(p2, p5 + 1, p17, RoundDiv(x, 5))
  ELSE x

Times(r, x) == TimesFactors(r.p2, r.p5, r.p17, x)

(***************************************************************************)
(* The network.                                                            *)
(***************************************************************************)
\* rgbColor.map(v => v / 255)
normalizeColor(rgb) ==
  LET Normalize(i) == RoundDiv(rgb[i] * Scale, 255)
  IN Table(Len(rgb), Normalize)

\* ceil of a fixed-point entry: an integer.
Ceil(x) == -((-x) \div Scale)

\* A denormalization that rounds to the nearest integer instead of up.
denormalizeColorTensorRounded(rgbColorTensor) ==
  LET Denormalize(x) == MathRound(Rat(x * 255, Scale))
  IN MapT(Denormalize, rgbColorTensor)

\* rgbColorTensor.mul(dl.scalar(255)).ceil()
denormalizeColorTensor(rgbColorTensor) ==
  LET Denormalize(x) == Ceil(x * 255)
  IN MapT(Denormalize, rgbColorTensor)

Minimum(x, y) == IF x < y THEN x ELSE y
Maximum(x, y) == IF x > y THEN x ELSE y

\* A clamp that forgets the upper end.
clampedColorTensorFromBelow(normalizedRgbColorTensor) ==
  LET Clamp(x) == Maximum(x, 0)
  IN MapT(Clamp, normalizedRgbColorTensor)

\* normalizedRgbColorTensor.minimum(dl.scalar(1)).maximum(dl.scalar(0))
clampedColorTensor(normalizedRgbColorTensor) ==
  LET Clamp(x) == Maximum(Minimum(x, Scale), 0)
  IN MapT(Clamp, normalizedRgbColorTensor)

Relu(x) == IF x > 0 THEN x ELSE 0

\* inputLayer.matMul(weights[layerIndex]).add(biases[layerIndex]).relu()
connectFullyConnectedLayer(W, b, inputLayer, layerIndex) ==
  LET Activate(x) == Relu(x + b[layerIndex])
  IN MapT(Activate, MatMul(inputLayer, W[layerIndex]))

\* The input followed by the output of every layer.
Activations(W0, b0, input0) ==
  Only({ LET RECURSIVE Upto(_)
             Upto(layer) ==
               IF layer = 0 THEN <<input>>
               ELSE Only({ Append(acts,
                             connectFullyConnectedLayer(W, b, acts[layer], layer))
                           : acts \in {Upto(layer - 1)} })
         IN Upto(Len(W)) : W \in {W0}, b \in {b0}, input \in {input0} })

predict(W, b, normalizedRgbColor) ==
  Only({ clampedColorTensor(acts[Len(acts)])
         : acts \in {Activations(W, b, normalizedRgbColor)} })

denormalizedPredict(W, b, rgbcolor) ==
  denormalizeColorTensor(predict(W, b, <<normalizeColor(rgbcolor)>>))[1]

\* prediction.sub(actual).square().mean().mean()
loss(prediction, actual) ==
  LET SquaredDiff(x, y) == RoundDiv((x - y) * (x - y), Scale)
  IN Only({ RoundDiv(SumT(squares), SizeT(squares))
            : squares \in {Map2T(SquaredDiff, prediction, actual)} })

(***************************************************************************)
(* optimizer.minimize: the gradient of the loss with respect to every      *)
(* weight and bias by backpropagation, then variable -= rate * gradient.   *)
(***************************************************************************)
\* A where Keep holds of the matching entry of B, 0 elsewhere.
Mask(Keep(_), B0, A0) ==
  Only({ LET Entry(i, j) == IF Keep(B[i][j]) THEN A[i][j] ELSE 0
         IN Tensor(Rows(A), Cols(A), Entry) : A \in {A0}, B \in {B0} })

\* The gradients of all layers, given the layers' activations and the
\* gradient dOut of the loss with respect to the last layer's output.
Backward(W0, acts0, dOut0) ==
  Only({ LET Positive(x) == x > 0
             \* From layer `layer` down, dA being the gradient with respect to
             \* its output: relu passes it where the output is positive.
             RECURSIVE Down(_, _)
             Down(layer, dA) ==
               IF layer = 0 THEN [w |-> <<>>, b |-> <<>>]
               ELSE Only({ Only({ [w |-> Append(below.w,
                                           MatMul(Transpose(acts[layer]), dZ)),
                                   b |-> Append(below.b, SumT(dZ))]
                                  : below \in {Down(layer - 1,
                                                 MatMul(dZ, Transpose(W[layer])))} })
                           : dZ \in {Mask(Positive, acts[layer + 1], dA)} })
         IN Down(Len(W), dOut) : W \in {W0}, acts \in {acts0}, dOut \in {dOut0} })

Gradients(W, b, input, target) ==
  Only({ Only({ LET LossSlope(x, y) == RoundDiv(2 * (x - y), SizeT(prediction))
                    \* minimum(x, 1) passes the gradient where x <= 1;
                    \* maximum(., 0) where the clamped value is >= 0, which a
                    \* relu output always is.
                    AtMostOne(x) == x <= Scale
                IN Backward(W, acts,
                     Mask(AtMostOne, acts[Len(acts)],
                          Map2T(LossSlope, prediction, target)))
                : prediction \in {clampedColorTensor(acts[Len(acts)])} })
         : acts \in {Activations(W, b, input)} })

minimize(W0, b0, rate0, input0, target0, returnCost) ==
  Only({ LET Descend(x, dx) == x - Times(rate, dx)
             NewWeights(l) == Map2T(Descend, W[l], g.w[l])
             NewBias(l) == Descend(b[l], g.b[l])
         IN [weights |-> Table(Len(W), NewWeights),
             biases |-> Table(Len(b), NewBias),
             cost |-> IF returnCost THEN Number(loss(predict(W, b, input), target))
                      ELSE Null]
         : W \in {W0}, b \in {b0}, rate \in {rate0}, input \in {input0},
           target \in {target0}, g \in {Gradients(W0, b0, input0, target0)} })

train1Batch(W, b, rate, batchData, shouldFetchCost) ==
  minimize(W, b, rate, batchData.input, batchData.target, shouldFetchCost)

(***************************************************************************)
(* train1Step.                                                             *)
(***************************************************************************)
\* A decay that rounds step / 42 to the nearest integer instead of flooring.
StepRateRounded(base, stp) == NumMul(base, MathPow(Decay, MathFloorDiv(stp + 21, 42)))

\* The rate train1Step sets on the optimizer.
StepRate(base, stp) == NumMul(base, MathPow(Decay, MathFloorDiv(stp, 42)))

\* A batch loop that stops one batch early when the batches fit exactly.
BatchLoopTestStrict(i, lastBatchIndex) == i < lastBatchIndex

\* Whether the batch loop goes on at index i.
BatchLoopTest(i, lastBatchIndex) == i <= lastBatchIndex

\* What train1Step returns: the summed cost divided by the batch size.
ReturnedCost(sum, bSize) == Rat(sum, bSize)

\* input.splice(from, to - from) in the place of input.slice(from, to): the
\* batch is cut out of the array.
ArraySplice(s, from, to) ==
  [taken |-> Slice(s, from, to),
   array |-> SubSeq(s, 1, IF from < Len(s) THEN from ELSE Len(s))
               \o SubSeq(s, (IF to < Len(s) THEN to ELSE Len(s)) + 1, Len(s))]

\* input.slice(from, to): what it returns, and the array it is called on,
\* which it leaves as it is.
ArraySlice(s, from, to) == [taken |-> Slice(s, from, to), array |-> s]

\* The loop over the batches: acc holds the index i, the weights, the biases,
\* the cost summed so far, the arrays of this.data and, for every batch
\* already trained on, the indices it covers and what train1Batch returned
\* for it.
train1Step(base, W0, b0, d0, bSize, stp, shouldFetchCost) ==
  Only({ LET lastBatchIndex == Len(d.input) - bSize
             RECURSIVE BatchLoop(_)
             BatchLoop(acc0) ==
               Only({ IF ~BatchLoopTest(acc.i, lastBatchIndex) THEN acc
                      ELSE BatchLoop(
                             [i |-> acc.i + bSize,
                              weights |-> r.weights,
                              biases |-> r.biases,
                              cost |-> IF shouldFetchCost THEN acc.cost + r.cost[1]
                                       ELSE acc.cost,
                              input |-> in.array,
                              target |-> tg.array,
                              trained |-> Append(acc.trained,
                                [index |-> Slice(Indices(Len(d.input)),
                                                 acc.i, acc.i + bSize),
                                 cost |-> r.cost])])
                      : acc \in {acc0},
                        in \in {ArraySlice(acc0.input, acc0.i, acc0.i + bSize)},
                        tg \in {ArraySlice(acc0.target, acc0.i, acc0.i + bSize)},
                        r \in {IF ~BatchLoopTest(acc0.i, lastBatchIndex)
                                 THEN Null
                               ELSE train1Batch(acc0.weights, acc0.biases, rate,
                                      [input |-> ArraySlice(acc0.input, acc0.i,
                                                            acc0.i + bSize).taken,
                                       target |-> ArraySlice(acc0.target, acc0.i,
                                                             acc0.i + bSize).taken],
                                      shouldFetchCost)} })
         IN Only({ [rate |-> rate, weights |-> r.weights, biases |-> r.biases,
                    data |-> [input |-> r.input, target |-> r.target],
                    trained |-> r.trained,
                    cost |-> IF shouldFetchCost
                               THEN Number(ReturnedCost(r.cost, bSize))
                             ELSE Null]
                   : r \in {BatchLoop([i |-> 0, weights |-> W0, biases |-> b0,
                                       cost |-> 0, input |-> d.input,
                                       target |-> d.target, trained |-> <<>>])} })
         : rate \in {StepRate(base, stp)}, d \in {d0} })

(***************************************************************************)
(* Construction and setupSession.  Math.random and dl.randomNormal are a   *)
(* stream of draws fixed by a seed; the seed is the run's only randomness. *)
(***************************************************************************)
\* The k-th draw of the stream, in 0..255.
Draw(seed, k) == (61 * seed + 97 * k + 13 * k * k) % 256

\* Math.floor(Math.random() * 256)
generateRandomChannelValue(seed, k) == Draw(seed, k)

\* The values dl.randomNormal takes in the model.
Normals == <<-(Scale \div 2), -(Scale \div 4), Scale \div 8, Scale \div 4, Scale \div 2,
             Scale>>

randomNormal(seed, k) == Normals[(Draw(seed, k) % Len(Normals)) + 1]

\* Math.sqrt(2.0 / n) in fixed point
SqrtTwoOver(n) ==
  CHOOSE r \in 0..(2 * Scale) :
    r * r <= (2 * Scale * Scale) \div n /\ (r + 1) * (r + 1) > (2 * Scale * Scale) \div n

\* dl.randomNormal(shape).mul(dl.scalar(Math.sqrt(2.0 / sizeOfPreviousLayer)))
initializeWeights(seed, layerIndex, shape, sizeOfPreviousLayer) ==
  LET root == SqrtTwoOver(sizeOfPreviousLayer)
      Entry(i, j) ==
        RoundDiv(randomNormal(seed, 100 * layerIndex + 10 * i + j) * root, Scale)
  IN Tensor(shape[1], shape[2], Entry)

\* The layers setupModel creates, <<sizeOfPreviousLayer, sizeOfThisLayer>>
\* each: three hidden layers, each half as wide as the one before, and the
\* output layer.
LayerShapes ==
  <<<<3, HiddenWidth>>,
    <<HiddenWidth, HiddenWidth \div 2>>,
    <<HiddenWidth \div 2, HiddenWidth \div 4>>,
    <<HiddenWidth \div 4, 3>>>>

setupModel(seed) ==
  LET Weights(l) ==
        initializeWeights(seed, l - 1, LayerShapes[l], LayerShapes[l][1])
      Bias(l) == 0
  IN [weights |-> Table(Len(LayerShapes), Weights),
      biases |-> Table(Len(LayerShapes), Bias)]

generateTrainingData(seed, exampleCount) ==
  LET RawInput(i) == <<generateRandomChannelValue(seed, 1000 + 3 * i),
                       generateRandomChannelValue(seed, 1001 + 3 * i),
                       generateRandomChannelValue(seed, 1002 + 3 * i)>>
      Input(i) == normalizeColor(RawInput(i))
      Target(i) == normalizeColor(computeComplementaryColor(RawInput(i)))
  IN [input |-> Table(exampleCount, Input),
      target |-> Table(exampleCount, Target)]

(***************************************************************************)
(* The colour harness: computeComplementaryColor called on any one colour *)
(* of the grid.                                                            *)
(***************************************************************************)
Channels == {(i * 255) \div NumLevels : i \in 0..NumLevels}

\* The colours of the grid, and every gray.
Colors ==
  {<<r, g, b>> : r \in Channels, g \in Channels, b \in Channels}
    \cup {<<v, v, v>> : v \in 0..255}

IdleModel ==
  /\ learningRate = Null /\ optimizerRate = Null
  /\ sampleSize = 0 /\ batchSize = 0
  /\ data = [input |-> <<>>, target |-> <<>>]
  /\ weights = <<>> /\ biases = <<>>

IdleLoop ==
  /\ pc = "harness" /\ step = 0 /\ cost = Null /\ trained = <<>>
  /\ console = <<>> /\ rows = <<>> /\ painted = <<>>
  /\ paints = 0 /\ calls = 0 /\ stepArg = 0
  /\ yields = 0 /\ frames = 0

InitColor ==
  /\ IdleModel /\ IdleLoop
  /\ rgbColor \in Colors /\ complement = Null

CallComputeComplementaryColor ==
  /\ pc = "harness"
  /\ complement' = computeComplementaryColor(rgbColor)
  /\ pc' = "returned"
  /\ UNCHANGED <<modelVars, step, cost, trained, console, rows, painted,
                 paints, calls, stepArg, yields, frames, rgbColor>>

NextColor == CallComputeComplementaryColor

SpecColor == InitColor /\ [][NextColor]_vars

(***************************************************************************)
(* The page's script: construction, setupSession, initializeUi and         *)
(* trainAndMaybeRender, which runs up to its await in one piece.           *)
(***************************************************************************)
localStepsToRun == 5
totalSteps == 500

\* The table rows of the page, by their data-original-color.
RowChoices == {<<<<255, 0, 0>>>>, <<<<10, 200, 30>>, <<128, 128, 128>>>>}

Init ==
  /\ learningRate = OneTenth
  /\ optimizerRate = OneTenth
  /\ sampleSize = RunSampleSize
  /\ batchSize = RunBatchSize
  /\ data = [input |-> <<>>, target |-> <<>>]
  /\ weights = <<>> /\ biases = <<>>
  /\ pc = "setup" /\ step = 0 /\ cost = Null /\ trained = <<>>
  /\ console = <<>>
  /\ rows \in RowChoices
  /\ painted = LET Empty(i) ==
                      [original |-> Null, complement |-> Null, predicted |-> Null]
                IN Table(Len(rows), Empty)
  /\ paints = 0 /\ calls = 0 /\ stepArg = 0
  /\ yields = 0 /\ frames = 0
  /\ rgbColor = Null /\ complement = Null

SetupSession ==
  /\ pc = "setup"
  /\ \E seed \in 1..NumSeeds :
       \E m \in {setupModel(seed)} :
         /\ weights' = m.weights
         /\ biases' = m.biases
         /\ data' = generateTrainingData(seed, sampleSize)
  /\ pc' = "ui"
  /\ UNCHANGED <<learningRate, optimizerRate, sampleSize, batchSize, step, cost,
                 trained, console, rows, painted, paints, calls, stepArg, yields,
                 frames, colorVars>>

InitializeUi ==
  /\ pc = "ui"
  /\ painted' = LET Cells(i) ==
                       [painted[i] EXCEPT
                          !.original = rows[i],
                          !.complement = computeComplementaryColor(rows[i])]
                 IN Table(Len(rows), Cells)
  /\ pc' = "train"
  /\ UNCHANGED <<modelVars, step, cost, trained, console, rows, paints, calls,
                 stepArg, yields, frames, colorVars>>

\* The cells after visualizePredictedComplement with weights W and biases b.
visualizePredictedComplement(cells, W, b) ==
  LET Cells(i) == [cells[i] EXCEPT !.predicted = denormalizedPredict(W, b, rows[i])]
  IN Table(Len(rows), Cells)

\* A reporting test that is one step late.
IsModLate(stp) == stp % localStepsToRun = 1

\* const isMod = step % localStepsToRun === 0
IsMod(stp) == stp % localStepsToRun = 0

\* A loop test that leaves the last step out.
LoopTestStrict(stp) == stp < totalSteps

\* The loop's test.
LoopTest(stp) == stp <= totalSteps

\* A loop that repaints on every step.
AlwaysRender(isMod, cells, paintsSoFar, W, b) ==
  [painted |-> visualizePredictedComplement(cells, W, b),
   paints |-> paintsSoFar + 1]

\* if (isMod) { ...; visualizePredictedComplement() }: the cells and the
\* number of paints after it.
MaybeRender(isMod, cells, paintsSoFar, W, b) ==
  IF isMod
    THEN [painted |-> visualizePredictedComplement(cells, W, b),
          paints |-> paintsSoFar + 1]
    ELSE [painted |-> cells, paints |-> paintsSoFar]

\* if (isMod) { console.log('step', step, 'cost', cost); ... }
MaybeLog(isMod, log, stp, c) ==
  IF isMod THEN Append(log, <<"step", stp, "cost", c>>) ELSE log

\* A loop that goes on without waiting for the frame.
NoAwait == "resumable"

\* Where the loop stands once it has issued `await dl.nextFrame()`.
AwaitNextFrame == "awaiting"

\* The loop from its test on, with the loop variable at stp: one iteration up
\* to its await, or the return, which resolves the promise.
LoopFrom(stp, cells, paintsSoFar) ==
  IF LoopTest(stp)
    THEN \E isMod \in {IsMod(stp)} :
         \E r \in {train1Step(learningRate, weights, biases, data, batchSize,
                               stp, isMod)} :
         \E v \in {MaybeRender(isMod, cells, paintsSoFar, r.weights, r.biases)} :
            /\ step' = stp
            /\ optimizerRate' = r.rate
            /\ weights' = r.weights
            /\ biases' = r.biases
            /\ cost' = r.cost
            /\ data' = r.data
            /\ trained' = r.trained
            /\ calls' = calls + 1
            /\ stepArg' = stp
            /\ console' = MaybeLog(isMod, console, stp, r.cost)
            /\ painted' = v.painted
            /\ paints' = v.paints
            /\ yields' = yields + 1
            /\ pc' = AwaitNextFrame
    ELSE /\ step' = stp
         /\ pc' = "resolved"
         /\ painted' = cells
         /\ paints' = paintsSoFar
         /\ UNCHANGED <<optimizerRate, weights, biases, cost, data, trained,
                        calls, stepArg, console, yields>>

\* trainAndMaybeRender() is called: the first paint, then the loop from step 1.
TrainAndMaybeRender ==
  /\ pc = "train"
  /\ LoopFrom(1, visualizePredictedComplement(painted, weights, biases), paints + 1)
  /\ UNCHANGED <<learningRate, sampleSize, batchSize, rows, frames, colorVars>>

\* The browser runs the animation frame the loop waits for.
NextFrame ==
  /\ pc = "awaiting"
  /\ frames' = frames + 1
  /\ pc' = "resumable"
  /\ UNCHANGED <<modelVars, step, cost, trained, console, rows, painted, paints,
                 calls, stepArg, yields, colorVars>>

\* The loop resumes after its await: step++, then the test.
Resume ==
  /\ pc = "resumable"
  /\ LoopFrom(step + 1, painted, paints)
  /\ UNCHANGED <<learningRate, sampleSize, batchSize, rows, frames, colorVars>>

\* .then(() => console.log('Training is done.'))
ThenCallback ==
  /\ pc = "resolved"
  /\ console' = Append(console, <<"Training is done.">>)
  /\ pc' = "done"
  /\ UNCHANGED <<modelVars, step, cost, trained, rows, painted, paints, calls,
                 stepArg, yields, frames, colorVars>>

Next ==
  \/ SetupSession
  \/ InitializeUi
  \/ TrainAndMaybeRender
  \/ NextFrame
  \/ Resume
  \/ ThenCallback

Spec == Init /\ [][Next]_vars

\* The browser keeps running the page: a frame that is waited for comes, and
\* a continuation that can run does.
LiveSpec == Spec /\ WF_vars(Next)

(***************************************************************************)
(* The train-step harness: a model set up for any sample size and batch    *)
(* size, and train1Step called on it with any step and flag.               *)
(***************************************************************************)
StepInputs == {0} \cup {42 * k - j : k \in 1..MaxDecays, j \in {0, 1}}

InitStep ==
  /\ learningRate = OneTenth
  /\ optimizerRate = OneTenth
  /\ sampleSize \in 0..MaxSamples
  /\ batchSize \in 1..MaxBatch
  /\ \E m \in {setupModel(1)} :
       /\ weights = m.weights
       /\ biases = m.biases
  /\ data = generateTrainingData(1, sampleSize)
  /\ IdleLoop
  /\ rgbColor = Null /\ complement = Null

CallTrain1Step ==
  /\ pc = "harness"
  /\ calls < MaxCalls
  /\ \E stp \in StepInputs, shouldFetchCost \in BOOLEAN :
       \E r \in {train1Step(learningRate, weights, biases, data, batchSize,
                             stp, shouldFetchCost)} :
          /\ optimizerRate' = r.rate
          /\ weights' = r.weights
          /\ biases' = r.biases
          /\ cost' = r.cost
          /\ data' = r.data
          /\ trained' = r.trained
          /\ stepArg' = stp
  /\ calls' = calls + 1
  /\ UNCHANGED <<learningRate, sampleSize, batchSize, pc, step, console,
                 rows, painted, paints, yields, frames, colorVars>>

NextStep == CallTrain1Step

SpecStep == InitStep /\ [][NextStep]_vars

(***************************************************************************)
(* The eager variant (complementary-color-prediction.eager.ts): the same   *)
(* network evaluated immediately.  Every number is fixed-point in units of *)
(* 1/Scale, an integer v being v * Scale.                                  *)
(***************************************************************************)
\* rgbColor.map(v => v / 255), on numbers of any size
normalizeColorEager(rgb) ==
  LET Normalize(i) == RoundDiv(rgb[i], 255)
  IN Table(Len(rgb), Normalize)

\* normalizedRgbColor.mul(dl.scalar(255)).clipByValue(0, 255).ceil()
denormalizeColorTensorEager(normalizedRgbColor) ==
  LET Denormalize(x) ==
        Ceil(Maximum(Minimum(x * 255, 255 * Scale), 0)) * Scale
  IN MapT(Denormalize, normalizedRgbColor)

\* inputLayer.matMul(weights[layerIndex]).add(biases[layerIndex]).relu(),
\* the bias being a tensor of one row.
calculateFullyConnectedLayer(W, b, inputLayer, layerIndex) ==
  Only({ LET Entry(i, j) == Relu(z[i][j] + b[layerIndex][1][j])
         IN Tensor(Rows(z), Cols(z), Entry)
         : z \in {MatMul(inputLayer, W[layerIndex])} })

\* The four layers, one after the other, on dl.tensor2d(input, [1, 3]).
predictRaw(W0, b0, input0) ==
  Only({ LET RECURSIVE Upto(_)
             Upto(layer) ==
               IF layer = 0 THEN <<input>>
               ELSE calculateFullyConnectedLayer(W, b, Upto(layer - 1), layer)
         IN Upto(Len(W)) : W \in {W0}, b \in {b0}, input \in {input0} })

\* What predict does with its argument: inputTensor is the tensor it hands
\* to the network, evalOutput the network's output, and result what it
\* returns.
predictEager(W, b, rgb) ==
  Only({ [inputTensor |-> <<fed>>,
          evalOutput |-> evalOutput,
          result |-> denormalizeColorTensorEager(evalOutput)]
         : fed \in {normalizeColorEager(rgb)},
           evalOutput \in {predictRaw(W, b, normalizeColorEager(rgb))} })

\* prediction.sub(actual).square().mean().mean(); the square of a
\* difference of q whole units and r further parts is taken piecewise.
lossEager(prediction, actual) ==
  LET SquaredDiff(x, y) ==
        LET q == (x - y) \div Scale
            r == (x - y) % Scale
        IN q * q * Scale + 2 * q * r + RoundDiv(r * r, Scale)
  IN Only({ RoundDiv(SumT(squares), SizeT(squares))
            : squares \in {Map2T(SquaredDiff, prediction, actual)} })

\* optimizer.minimize(f, returnCost) with f the loss of predict(input)
\* against the target: f is evaluated once; the gradient of ceil is zero
\* everywhere, hence so is the gradient of f with respect to every variable,
\* and the descent leaves the variables where they are.
minimizeEager(W0, b0, rate0, input0, target0, returnCost) ==
  Only({ Only({ [weights |-> W,
                 biases |-> b,
                 inputTensor |-> p.inputTensor,
                 evalOutput |-> p.evalOutput,
                 prediction |-> p.result,
                 actual |-> actual,
                 cost |-> IF returnCost THEN Number(lossEager(p.result, actual))
                          ELSE Null]
                : p \in {predictEager(W, b, input0)} })
         : W \in {W0}, b \in {b0}, actual \in {<<target0>>} })

\* The loop over the examples: acc holds the index i, the variables, the
\* cost of the last minimize and, for every minimize already made, the
\* example's index and what its one evaluation of the loss saw.
train1BatchEager(base, W0, b0, d0, stp, shouldFetchCost) ==
  Only({ LET RECURSIVE ExampleLoop(_)
             ExampleLoop(acc0) ==
               Only({ IF ~(acc.i < Len(d.input)) THEN acc
                      ELSE ExampleLoop(
                             [i |-> acc.i + 1,
                              weights |-> r.weights,
                              biases |-> r.biases,
                              cost |-> r.cost,
                              trained |-> Append(acc.trained,
                                [index |-> acc.i,
                                 inputTensor |-> r.inputTensor,
                                 evalOutput |-> r.evalOutput,
                                 prediction |-> r.prediction,
                                 actual |-> r.actual,
                                 cost |-> r.cost])])
                      : acc \in {acc0},
                        r \in {IF ~(acc0.i < Len(d.input)) THEN Null
                               ELSE minimizeEager(acc0.weights, acc0.biases, rate,
                                      d.input[acc0.i + 1], d.target[acc0.i + 1],
                                      shouldFetchCost)} })
         IN Only({ [rate |-> rate, weights |-> r.weights, biases |-> r.biases,
                    trained |-> r.trained, cost |-> r.cost]
                   : r \in {ExampleLoop([i |-> 0, weights |-> W0, biases |-> b0,
                                         cost |-> Null, trained |-> <<>>])} })
         : rate \in {StepRate(base, stp)}, d \in {d0} })

\* dl.randomNormal(shape, sizeOfThisLayer): the draws about the mean.
randomNormalAbout(mean, seed, k) == mean * Scale + randomNormal(seed, k)

\* dl.randomNormal(shape, sizeOfThisLayer)
\*   .mul(dl.scalar(Math.sqrt(2.0 / sizeOfThisLayer)))
initializeWeightsEager(seed, layerIndex, shape, sizeOfThisLayer) ==
  LET root == SqrtTwoOver(sizeOfThisLayer)
      Entry(i, j) ==
        RoundDiv(randomNormalAbout(sizeOfThisLayer, seed,
                                   100 * layerIndex + 10 * i + j) * root, Scale)
  IN Tensor(shape[1], shape[2], Entry)

\* The weights and the bias, dl.zeros([1, sizeOfThisLayer]), of one layer.
createFullyConnectedLayerWeights(seed, sizeOfPreviousLayer, layerIndex, sizeOfThisLayer) ==
  LET Zero(i, j) == 0
  IN [weights |-> initializeWeightsEager(seed, layerIndex,
                    <<sizeOfPreviousLayer, sizeOfThisLayer>>, sizeOfThisLayer),
      bias |-> Tensor(1, sizeOfThisLayer, Zero)]

setUpModel(seed) ==
  LET Layer(l) ==
        createFullyConnectedLayerWeights(seed, LayerShapes[l][1], l - 1,
                                         LayerShapes[l][2])
      Weights(l) == Layer(l).weights
      Bias(l) == Layer(l).bias
  IN [weights |-> Table(Len(LayerShapes), Weights),
      biases |-> Table(Len(LayerShapes), Bias)]

\* The raw colours generateTrainingData draws.
rawInputs(seed, exampleCount) ==
  LET RawInput(i) == <<generateRandomChannelValue(seed, 1000 + 3 * i),
                       generateRandomChannelValue(seed, 1001 + 3 * i),
                       generateRandomChannelValue(seed, 1002 + 3 * i)>>
  IN Table(exampleCount, RawInput)

\* An integer colour as numbers.
AsNumbers(rgb) ==
  LET Entry(i) == rgb[i] * Scale
  IN Table(Len(rgb), Entry)

generateTrainingDataEager(seed, exampleCount) ==
  Only({ LET Input(i) == normalizeColorEager(AsNumbers(raw[i]))
             Target(i) ==
               normalizeColorEager(AsNumbers(computeComplementaryColor(raw[i])))
         IN [input |-> Table(exampleCount, Input),
             target |-> Table(exampleCount, Target)]
         : raw \in {rawInputs(seed, exampleCount)} })

(***************************************************************************)
(* The eager harness: the eager model after setupSession, for any seed and *)
(* any number of examples, and train1Batch called on it with any step and  *)
(* flag.                                                                   *)
(***************************************************************************)
InitEager ==
  /\ learningRate = OneTenth
  /\ optimizerRate = OneTenth
  /\ sampleSize \in 1..MaxSamples
  /\ batchSize = RunBatchSize
  /\ \E seed \in 1..NumSeeds :
       /\ \E m \in {setUpModel(seed)} :
            /\ weights = m.weights
            /\ biases = m.biases
       /\ data = generateTrainingDataEager(seed, sampleSize)
  /\ IdleLoop
  /\ rgbColor = Null /\ complement = Null

CallTrain1Batch ==
  /\ pc = "harness"
  /\ calls < MaxCalls
  /\ \E stp \in StepInputs, shouldFetchCost \in BOOLEAN :
       \E r \in {train1BatchEager(learningRate, weights, biases, data, stp,
                                   shouldFetchCost)} :
          /\ optimizerRate' = r.rate
          /\ weights' = r.weights
          /\ biases' = r.biases
          /\ cost' = r.cost
          /\ trained' = r.trained
          /\ stepArg' = stp
  /\ calls' = calls + 1
  /\ UNCHANGED <<learningRate, sampleSize, batchSize, data, pc, step, console,
                 rows, painted, paints, yields, frames, colorVars>>

NextEager == CallTrain1Batch

SpecEager == InitEager /\ [][NextEager]_vars

(***************************************************************************)
(* Properties of the training loop, over Spec and LiveSpec.                *)
(***************************************************************************)
\* The console lines that report a step.
StepLines == {i \in 1..Len(console) : console[i][1] = "step"}

\* The console lines that say training is done.
DoneLines == {i \in 1..Len(console) : console[i][1] = "Training is done."}

\* C3: train1Step returns a cost on step s, and the loop logs it, exactly
\* when s is a multiple of 5: after step s the console holds one line
\* <<"step", 5i, "cost", c>> for each multiple 5i <= s, in this order and with
\* the cost returned on that step; on every other step null is returned and
\* nothing is logged.  The batches trained on are the same on both kinds
\* of step: called on the same state with the flag set and with it clear,
\* train1Step trains on the same slices.
C3_CostOnlyOnReportingSteps ==
  calls > 0 =>
    /\ IsNull(cost) <=> stepArg % 5 # 0
    /\ StepLines = 1..(stepArg \div 5)
    /\ \A i \in StepLines :
         /\ Len(console[i]) = 4
         /\ console[i][2] = 5 * i
         /\ console[i][3] = "cost"
         /\ ~IsNull(console[i][4])
    /\ stepArg % 5 = 0 => console[stepArg \div 5][4] = cost
    /\ Len(trained) = sampleSize \div batchSize
    /\ \A k \in 1..Len(trained) :
         trained[k].index = Slice(Indices(sampleSize), (k - 1) * batchSize,
                                  k * batchSize)
    /\ pc = "awaiting" =>
         LET fetched == train1Step(learningRate, weights, biases, data, batchSize,
                                   stepArg + 1, TRUE)
             blind == train1Step(learningRate, weights, biases, data, batchSize,
                                 stepArg + 1, FALSE)
             BatchIndex(r) == LET Index(k) == r.trained[k].index
                              IN Table(Len(r.trained), Index)
         IN /\ BatchIndex(fetched) = BatchIndex(blind)
            /\ Len(fetched.trained) = sampleSize \div batchSize
            /\ ~IsNull(fetched.cost) /\ IsNull(blind.cost)

\* After the tenth step: two lines, the second with the cost of that step.
C3_Witness ==
  /\ calls = 10 /\ pc = "awaiting" /\ ~IsNull(cost)
  /\ Len(console) = 2 /\ console[2][2] = 10 /\ console[2][4] = cost
  /\ Len(trained) > 0

\* C4: the loop calls train1Step exactly totalSteps = 500 times, with the
\* steps 1, 2, ..., 500 in this order; then the promise resolves, 'Training
\* is done.' is logged exactly once, and no train step runs after that.  With
\* the browser delivering frames, the run gets there.
C4_LoopRunsTotalSteps ==
  /\ [](pc \in {"resolved", "done"} => calls = totalSteps /\ stepArg = totalSteps)
  /\ [](calls > 0 =>
          /\ stepArg = calls
          /\ step = IF pc \in {"resolved", "done"} THEN calls + 1 ELSE calls)
  /\ [](Cardinality(DoneLines) = IF pc = "done" THEN 1 ELSE 0)
  /\ [][calls' # calls =>
          calls' = calls + 1 /\ stepArg' = calls' /\ calls' <= totalSteps]_vars
  /\ [][(pc \in {"resolved", "done"}) => (UNCHANGED <<calls, weights, biases>>)]_vars
  /\ <>(pc = "done")

\* The end of the run.
C4_Witness ==
  /\ pc = "done" /\ calls = 500 /\ stepArg = 500
  /\ DoneLines = {Len(console)}

\* C5: the loop yields to the browser exactly once after every train step,
\* and step s + 1 begins only when the frame awaited after step s has come;
\* while the loop is suspended nothing updates the parameters.
C5_OneYieldBetweenSteps ==
  /\ [](yields = calls)
  /\ [](frames = IF pc = "awaiting" THEN yields - 1 ELSE yields)
  /\ [][calls' # calls => frames = calls /\ yields' = yields + 1]_vars
  /\ [][pc = "awaiting" => (UNCHANGED <<weights, biases, optimizerRate, cost>>)]_vars

\* Suspended after the second step, whose frame has not come yet.
C5_Witness ==
  pc = "awaiting" /\ calls = 2 /\ yields = 2 /\ frames = 1

\* What the cells show is what the network predicts with W and b.
ShowsPredictionsOf(cells, W, b) ==
  \A i \in 1..Len(rows) : cells[i].predicted = denormalizedPredict(W, b, rows[i])

\* C6: besides the first paint before the loop, visualizePredictedComplement
\* runs on step s exactly when s is a multiple of 5, once, after the step's
\* batches have updated the parameters and before the loop yields: the cells
\* then show the predictions of the parameters step s left.
C6_RepaintOnReportingSteps ==
  /\ [](calls > 0 => paints = 1 + calls \div 5)
  /\ []((calls > 0 /\ calls % 5 = 0) => ShowsPredictionsOf(painted, weights, biases))
  /\ [][(calls > 0 /\ paints' # paints) =>
          /\ paints' = paints + 1
          /\ calls' = calls + 1 /\ calls' % 5 = 0
          /\ pc' = "awaiting"
          /\ ShowsPredictionsOf(painted', weights', biases')]_vars
  /\ [][(calls > 0 /\ paints' = paints) => painted' = painted]_vars

\* After the fifth step: the second paint, of what that step has learnt.
C6_Witness ==
  /\ calls = 5 /\ paints = 2 /\ pc = "awaiting"
  /\ ShowsPredictionsOf(painted, weights, biases)

\* The inputs predict is tried on: a batch of every combination of a value
\* below 0, one inside [0, 1] and one above 1, and the training inputs.
ProbeBatch ==
  LET Values == <<-Scale, Scale \div 2, 2 * Scale>>
      Probe(i) == <<Values[((i - 1) \div 9) + 1], Values[(((i - 1) \div 3) % 3) + 1],
                    Values[((i - 1) % 3) + 1]>>
  IN Table(27, Probe)

\* Every entry of the tensor is in [0, 1].
InUnitRange(t) ==
  \A i \in 1..Len(t) : \A j \in 1..Len(t[i]) : 0 <= t[i][j] /\ t[i][j] <= Scale

\* The output of the last layer, before the clamp.
Unclamped(W, b, input) ==
  Only({ acts[Len(acts)] : acts \in {Activations(W, b, input)} })

\* C8: with the parameters of any moment of the run, before, between and
\* after the train steps, every entry of what predict returns is in [0, 1],
\* one row of three per input row, on inputs inside and outside [0, 1].
C8_PredictInUnitRange ==
  weights # <<>> =>
    /\ \A batch \in {ProbeBatch, data.input} :
         batch # <<>> =>
           Only({ /\ Len(out) = Len(batch)
                  /\ \A i \in 1..Len(out) : Len(out[i]) = 3
                  /\ InUnitRange(out)
                  : out \in {predict(weights, biases, batch)} })

\* After training, an input whose last layer goes above 1 and is clamped.
C8_Witness ==
  /\ calls > 0
  /\ ~InUnitRange(Unclamped(weights, biases, ProbeBatch))
  /\ InUnitRange(predict(weights, biases, ProbeBatch))

\* C9 (as the code has it): what the page shows as a prediction is three
\* integers in [0, 255], each the clamped output x of predict for the row's
\* colour times 255 rounded UP: the least integer n with n >= 255 * x.
C9_DenormalizedIsCeil ==
  (calls > 0 /\ calls % 5 = 0) =>
    \A i \in 1..Len(rows) :
      Only({ /\ Len(painted[i].predicted) = 3
             /\ \A ch \in 1..3 :
                  Only({ /\ n \in 0..255
                         /\ n * Scale >= 255 * x[ch]
                         /\ (n - 1) * Scale < 255 * x[ch]
                         : n \in {painted[i].predicted[ch]} })
             : x \in {predict(weights, biases, <<normalizeColor(rows[i])>>)[1]} })

\* A prediction shown with a channel strictly between two integers: rounded
\* up, where rounding to the nearest would give less.
C9_Witness ==
  /\ calls > 0 /\ calls % 5 = 0
  /\ \E i \in 1..Len(rows) : \E ch \in 1..3 :
       Only({ /\ painted[i].predicted[ch] * Scale > 255 * x[ch]
              /\ painted[i].predicted[ch] > MathRound(Rat(255 * x[ch], Scale))
              : x \in {predict(weights, biases, <<normalizeColor(rows[i])>>)[1]} })

\* C9 (as stated): each shown channel is round(x * 255).
C9_DenormalizedIsRound ==
  (calls > 0 /\ calls % 5 = 0) =>
    \A i \in 1..Len(rows) :
      Only({ \A ch \in 1..3 :
               /\ painted[i].predicted[ch] \in 0..255
               /\ painted[i].predicted[ch] = MathRound(Rat(255 * x[ch], Scale))
             : x \in {predict(weights, biases, <<normalizeColor(rows[i])>>)[1]} })

\* C14: the weights and the biases change only in a train step.  Filling in
\* the complements (computeComplementaryColor), waiting for the frame and
\* the end of the run leave the weights, the biases, the base rate and the
\* dataset as they are; the paints a step is run with (the first paint before
\* step 1, the repaint of a reporting step, each through denormalizedPredict
\* and predict) leave the weights and biases exactly as train1Step returned
\* them; and train1Step leaves the dataset, its length and every sample.
C14_OnlyTrainStepChangesParameters ==
  /\ [][learningRate' = learningRate]_vars
  /\ [][(pc # "setup") =>
          /\ data' = data
          /\ Len(data'.input) = sampleSize /\ Len(data'.target) = sampleSize]_vars
  /\ [][(pc # "setup" /\ (weights' # weights \/ biases' # biases)) =>
          calls' = calls + 1]_vars
  /\ [][(pc \in {"ui", "awaiting", "resolved"}) =>
          (UNCHANGED <<weights, biases, optimizerRate, data>>)]_vars
  /\ [][(calls' = calls + 1) =>
          \E r \in {train1Step(learningRate, weights, biases, data, batchSize,
                                calls', IsMod(calls'))} :
             /\ weights' = r.weights /\ biases' = r.biases
             /\ r.data = data]_vars

\* A reporting step has trained and repainted, and the frame has come: the
\* weights are no longer those the first paint showed.
C14_Witness ==
  /\ pc = "resumable" /\ calls = 5 /\ frames = 5 /\ paints = 2
  /\ Len(data.input) = sampleSize
  /\ trained # <<>>

(***************************************************************************)
(* Properties of train1Step, over SpecStep.                                *)
(***************************************************************************)
\* C1: after train1Step(s, _) the optimizer's rate is 0.1 * 0.85^floor(s/42),
\* that is 2^(-1-2k) * 5^(-1-k) * 17^k with k = floor(s/42), whatever steps
\* were trained before, and the base rate is still 0.1: the rate is 0.1 up to
\* step 41, 0.085 from step 42 and 0.07225 from step 84.
C1_RateIsFunctionOfStep ==
  calls > 0 =>
    /\ learningRate = Num(-1, -1, 0)
    /\ \E k \in 0..stepArg :
         /\ 42 * k <= stepArg /\ stepArg < 42 * (k + 1)
         /\ optimizerRate = Num(-1 - 2 * k, -1 - k, k)
    /\ stepArg < 42 => optimizerRate = Num(-1, -1, 0)
    /\ (42 <= stepArg /\ stepArg < 84) => optimizerRate = Num(-3, -2, 1)

\* A second call with a step of the first decay period, whatever came first.
C1_Witness ==
  calls = 2 /\ stepArg = 41 /\ optimizerRate = OneTenth

\* C2: with N examples and batch size B one train1Step trains floor(N / B)
\* batches, the k-th (from 0) on the examples k*B .. (k+1)*B - 1 in this
\* order; the N mod B examples at the end are in no batch.
C2_BatchesAreContiguousSlices ==
  calls > 0 =>
    /\ Len(data.input) = sampleSize
    /\ Len(trained) * batchSize <= sampleSize
    /\ sampleSize < (Len(trained) + 1) * batchSize
    /\ \A k \in 1..Len(trained) :
         /\ Len(trained[k].index) = batchSize
         /\ \A j \in 1..batchSize :
              trained[k].index[j] = (k - 1) * batchSize + (j - 1)

\* Five examples in batches of two: two batches, the fifth example dropped.
C2_Witness ==
  /\ calls > 0 /\ sampleSize = 5 /\ batchSize = 2
  /\ trained[1].index = <<0, 1>> /\ trained[2].index = <<2, 3>>
  /\ Len(trained) = 2

\* C7: what train1Step returns on a reporting step is the mean of the
\* batches' costs: the sum of the costs train1Batch returned, divided by the
\* number of batches trained.  (The code divides the sum by the batch size.)
C7_CostIsMeanOverBatches ==
  (calls > 0 /\ ~IsNull(cost) /\ Len(trained) > 0) =>
    LET BatchCost(k) == trained[k].cost[1]
    IN cost = Number(Rat(Sum(Len(trained), BatchCost), Len(trained)))

(***************************************************************************)
(* Properties of computeComplementaryColor, over SpecColor.                *)
(***************************************************************************)
\* a is in [0, 1].
RInUnit(a) == ~RLt(a, RInt(0)) /\ ~RLt(RInt(1), a)

\* C10: for every colour with integer channels in [0, 255],
\* computeComplementaryColor returns three integers, each in [0, 255]: the
\* rotated hue is in [0, 1], and so is each channel hue2rgb produces, before
\* it is scaled by 255 and rounded.
C10_ComplementInByteRange ==
  pc = "returned" =>
    /\ Len(complement) = 3
    /\ \A ch \in 1..3 : complement[ch] \in 0..255
    /\ RInUnit(RotatedHue(RgbToHsl(Rat(rgbColor[1], 255), Rat(rgbColor[2], 255),
                                   Rat(rgbColor[3], 255)).h))
    /\ Only({ \A ch \in 1..3 :
                /\ RInUnit(v[ch])
                /\ complement[ch] = MathRound(RMul(v[ch], RInt(255)))
              : v \in {ComplementChannels(rgbColor)} })

\* Blue, whose hue of 240 degrees turns past 360 and wraps to 60: yellow.
C10_Witness ==
  pc = "returned" /\ rgbColor = <<0, 0, 255>> /\ complement = <<255, 255, 0>>

\* C13: a dataset size or batch size that is not positive is rejected when
\* the session is set up, so train1Step never runs on an empty dataset or
\* with a batch size that is not positive.  (The code checks neither:
\* setupSession with sampleSize = 0 returns an empty dataset, and train1Step
\* runs on it.)
C13_NoStepOnEmptyDataset ==
  calls > 0 => (sampleSize > 0 /\ Len(data.input) > 0 /\ batchSize > 0)

\* C11: for every v in 0..255, computeComplementaryColor of <<v, v, v>> is
\* <<v, v, v>>: with max = min the hue and the saturation are 0 and the
\* lightness v / 255 passes through to the three channels.
C11_GrayIsItsOwnComplement ==
  (pc = "returned" /\ rgbColor[1] = rgbColor[2] /\ rgbColor[2] = rgbColor[3]) =>
    /\ complement = rgbColor
    /\ Only({ /\ hsl.h = RInt(0) /\ hsl.s = RInt(0)
              /\ hsl.l = Rat(rgbColor[1], 255)
              /\ HslToRgb(RotatedHue(hsl.h), hsl.s, hsl.l) = <<hsl.l, hsl.l, hsl.l>>
              : hsl \in {RgbToHsl(Rat(rgbColor[1], 255), Rat(rgbColor[2], 255),
                                  Rat(rgbColor[3], 255))} })

\* A gray off the grid, returned as it was given.
C11_Witness ==
  pc = "returned" /\ rgbColor = <<77, 77, 77>> /\ complement = <<77, 77, 77>>

\* C12: computeComplementaryColor of pure red <<255, 0, 0>> is cyan
\* <<0, 255, 255>>.  The hue 0 turns to 1/2; the blue channel's argument
\* 1/2 - 1/3 is exactly the boundary 1/6 of hue2rgb and the green channel's
\* is exactly the boundary 1/2, and both give the full value q = 1, while
\* red, at 5/6, gives p = 0.
C12_RedGivesCyan ==
  (pc = "returned" /\ rgbColor = <<255, 0, 0>>) =>
    /\ complement = <<0, 255, 255>>
    /\ Only({ Only({ /\ hsl.h = RInt(0) /\ hsl.s = RInt(1) /\ hsl.l = Rat(1, 2)
                     /\ h = Rat(1, 2)
                     /\ WrapUnit(RSub(h, Rat(1, 3))) = Rat(1, 6)
                     /\ WrapUnit(RAdd(h, Rat(1, 3))) = Rat(5, 6)
                     /\ Q(hsl.l, hsl.s) = RInt(1)
                     /\ hue2rgb(RInt(0), RInt(1), RSub(h, Rat(1, 3))) = RInt(1)
                     /\ hue2rgb(RInt(0), RInt(1), h) = RInt(1)
                     /\ hue2rgb(RInt(0), RInt(1), RAdd(h, Rat(1, 3))) = RInt(0)
                     /\ HslToRgb(h, hsl.s, hsl.l) = <<RInt(0), RInt(1), RInt(1)>>
                     : h \in {RotatedHue(hsl.h)} })
              : hsl \in {RgbToHsl(RInt(1), RInt(0), RInt(0))} })

\* Red has been converted, to something that is not red.
C12_Witness ==
  /\ pc = "returned" /\ rgbColor = <<255, 0, 0>>
  /\ complement[1] = 0 /\ complement[2] > 0 /\ complement[3] > 0

(***************************************************************************)
(* Properties of the eager variant's train1Batch, over SpecEager.          *)
(***************************************************************************)
\* C15: in the eager variant's train1Batch every evaluation of the loss
\* feeds the network the training input as it is stored, normalized by 255
\* exactly once, and compares the network's own output, neither
\* denormalized to [0,255] nor rounded, with the target as it is stored,
\* which lies in [0,1].
C15_LossInNormalizedDomain ==
  (pc = "harness" /\ calls > 0) =>
    /\ Len(trained) = Len(data.input)
    /\ \A k \in 1..Len(trained) :
         /\ trained[k].index = k - 1
         /\ trained[k].inputTensor = <<data.input[k]>>
         /\ trained[k].actual = <<data.target[k]>>
         /\ InUnitRange(trained[k].actual)
         /\ trained[k].prediction = trained[k].evalOutput

====
